---- MODULE Spec2Model ----
(***************************************************************************)
(* Model of the YOLOv5-ShuffleNetv2 web front end (app.py, the upload      *)
(* handler of POST /detect/imageDetect) and of the activation modules      *)
(* (models/activations.py: Hardswish, AconC, MetaAconC).                   *)
(*                                                                         *)
(* Web part.  Each request r \in Req runs upload() once.  Requests are     *)
(* numbered in arrival order; app.run() is called without threaded=False,  *)
(* so handlers of different requests may interleave.  Steps that touch     *)
(* only the handler's locals are merged with the neighbouring step; the    *)
(* write of the image file (cv2.imwrite) and its read (app_detect) are in  *)
(* different actions.  The picture carried by request r is picture r;      *)
(* picture 0 is the file an earlier run left on disk.                      *)
(*                                                                         *)
(* Numeric part.  Tensors are sequences of integers; sigmoid is a          *)
(* fixed-point table (1/1000) with linear interpolation; outputs are kept  *)
(* as exact scaled numerators so no rounding enters the algebra.           *)
(***************************************************************************)
EXTENDS Integers, Sequences, FiniteSets

\* ---------------------------------------------------------------- bounds
NumReq == 2

MaxX == 4

MaxP == 1

MaxBeta == 1

MaxW == 1

TensorLen == 2

Req == 1..NumReq

\* ------------------------------------------------------------- variables
VARIABLES pc, re_conf, file, image_link, payload, image, det, resp, fault,
          log, disk, act, ax, ap1, ap2, abeta, aout

webvars == <<pc, re_conf, file, image_link, payload, image, det, resp, fault, log, disk>>

actvars == <<act, ax, ap1, ap2, abeta, aout>>

vars == <<pc, re_conf, file, image_link, payload, image, det, resp, fault,
          log, disk, act, ax, ap1, ap2, abeta, aout>>

None == "None"

\* ---------------------------------------------------------- form inputs
\* values request.form.get('re_conf') can return
ConfInputs == {None, "abc", "0.25", "0.5"}

\* values request.form.get('imageBase64Code') can return: absent, a string
\* base64.b64decode rejects, or a string it decodes
FileInputs == {None, "badpad", "b64"}

\* values request.form.get('imageLink') can return
LinkInputs == {None, "", "url"}

\* what the decoded bytes of imageBase64Code can be: not an image, a
\* single-channel image, a three-channel image
DecodedBytes == {"notimage", "gray", "rgb"}

\* what req.get(image_link) can do: raise, or return a body
FetchOutcomes == {"neterror", "notimage", "rgb"}

\* float(re_conf): the threshold in hundredths, or the exception raised
Float(s) ==
  CASE s = None   -> [ok |-> FALSE, exc |-> "TypeError", val |-> 0]
    [] s = "0.25" -> [ok |-> TRUE, exc |-> None, val |-> 25]
    [] s = "0.5"  -> [ok |-> TRUE, exc |-> None, val |-> 50]
    [] OTHER      -> [ok |-> FALSE, exc |-> "ValueError", val |-> 0]

\* --------------------------------------------------------- image helpers
NoImage == [pic |-> -1, order |-> None, ch |-> 0, boxes |-> 0]

\* Image.open(...) of picture k: a PIL image, channel order RGB
PilImage(k, channels) == [pic |-> k, order |-> "RGB", ch |-> channels, boxes |-> 0]

Swap(order) == IF order = "RGB" THEN "BGR" ELSE "RGB"

\* cv2.cvtColor(a, cv2.COLOR_BGR2RGB): reverses the channel order
cvtColor(a) == [a EXCEPT !.order = Swap(a.order)]

\* cv2.imwrite(dirs, a): a is taken as BGR; the stored colours are right
\* exactly when it is
imwrite(a) == [pic |-> a.pic, colours |-> (a.order = "BGR")]

\* Image.fromarray(a, 'RGB') + save(format='JPEG') + b64encode
JpegBase64(a) == <<"base64", <<"jpeg", [pic |-> a.pic, boxes |-> a.boxes,
                                        colours |-> (a.order = "RGB")]>> >>

\* ------------------------------------------------------------- inference
\* objects the detector finds in picture k, with their confidence (1/100)
Objects(k) == [i \in 1..(k + 1) |-> [name |-> i, score |-> (37 * (k + i)) % 100]]

RECURSIVE Keep(_, _)
Keep(objs, conf) ==
  IF objs = <<>> THEN <<>>
  ELSE IF Head(objs).score >= conf
       THEN <<Head(objs).name>> \o Keep(Tail(objs), conf)
       ELSE Keep(Tail(objs), conf)

\* service.app_detect(re_conf): forward pass over the image in the fixed
\* directory; returns the annotated BGR array, the label string, the count
app_detect(stored, conf) ==
  LET kept == Keep(Objects(stored.pic), conf)
  IN [image_array |-> [pic |-> stored.pic,
                       order |-> IF stored.colours THEN "BGR" ELSE "RGB",
                       ch |-> 3, boxes |-> Len(kept)],
      re_label |-> kept,
      num |-> Len(kept)]

NoDet == [image_array |-> NoImage, re_label |-> <<>>, num |-> -1]

NoResp == [status |-> 0, body |-> <<>>]

\* ------------------------------------------------------------ web: Init
WebInit ==
  /\ pc = [r \in Req |-> "idle"]
  /\ re_conf = [r \in Req |-> None]
  /\ file = [r \in Req |-> None]
  /\ image_link = [r \in Req |-> None]
  /\ payload = [r \in Req |-> None]
  /\ image = [r \in Req |-> NoImage]
  /\ det = [r \in Req |-> NoDet]
  /\ resp = [r \in Req |-> NoResp]
  /\ fault = [r \in Req |-> None]
  /\ log = [r \in Req |-> <<>>]
  /\ disk = [pic |-> 0, colours |-> TRUE]

ActInit ==
  /\ act = "none"
  /\ ax = [i \in 1..TensorLen |-> 0]
  /\ ap1 = 0
  /\ ap2 = 0
  /\ abeta = 0
  /\ aout = [i \in 1..TensorLen |-> 0]

Init == WebInit /\ ActInit

\* variant: the exception is caught and the handler goes on to inference
RaiseSwallowed(r, exc, calls) ==
  /\ pc' = [pc EXCEPT ![r] = "detect"]
  /\ log' = [log EXCEPT ![r] = log[r] \o calls]
  /\ UNCHANGED <<fault, resp>>

\* the handler of r dies with an unhandled exception: Flask answers 500
Raise(r, exc, calls) ==
  /\ pc' = [pc EXCEPT ![r] = "fault"]
  /\ fault' = [fault EXCEPT ![r] = exc]
  /\ resp' = [resp EXCEPT ![r] = [status |-> 500, body |-> <<>>]]
  /\ log' = [log EXCEPT ![r] = log[r] \o calls]

\* variant: re_conf is read but its parse is put off until inference
ParseConfDeferred(r) ==
  /\ pc[r] = "idle"
  /\ \A q \in Req : q < r => pc[q] # "idle"
  /\ \E c \in ConfInputs : re_conf' = [re_conf EXCEPT ![r] = c]
  /\ pc' = [pc EXCEPT ![r] = "receive"]
  /\ UNCHANGED <<file, image_link, payload, image, det, resp, fault, log, disk, actvars>>

\* app.py 31-33: read re_conf and parse it
ParseConf(r) ==
  /\ pc[r] = "idle"
  /\ \A q \in Req : q < r => pc[q] # "idle"
  /\ \E c \in ConfInputs :
       /\ re_conf' = [re_conf EXCEPT ![r] = c]
       /\ IF Float(c).ok
          THEN /\ pc' = [pc EXCEPT ![r] = "receive"]
               /\ log' = [log EXCEPT ![r] = log[r] \o <<"float">>]
               /\ UNCHANGED <<fault, resp>>
          ELSE Raise(r, Float(c).exc, <<"float">>)
  /\ UNCHANGED <<file, image_link, payload, image, det, disk, actvars>>

\* variant: `if image_link is not None:`
LinkGivenNotNone(l) == l # None

\* app.py 40: `if image_link:` is Python truthiness: None and "" are false
LinkGiven(l) == l \notin {None, ""}

\* app.py 37-42: imageLink is non-empty: fetch it and open the body
ReceiveLink(r) ==
  /\ pc[r] = "receive"
  /\ \E f \in FileInputs, l \in LinkInputs, o \in FetchOutcomes :
       /\ LinkGiven(l)
       /\ file' = [file EXCEPT ![r] = f]
       /\ image_link' = [image_link EXCEPT ![r] = l]
       /\ payload' = [payload EXCEPT ![r] = o]
       /\ CASE o = "neterror" ->
                 /\ Raise(r, "ConnectionError", <<"req.get">>)
                 /\ UNCHANGED image
            [] o = "notimage" ->
                 /\ Raise(r, "UnidentifiedImageError", <<"req.get", "Image.open">>)
                 /\ UNCHANGED image
            [] OTHER ->
                 /\ image' = [image EXCEPT ![r] = PilImage(r, 3)]
                 /\ pc' = [pc EXCEPT ![r] = "detect"]
                 /\ log' = [log EXCEPT ![r] = log[r] \o <<"req.get", "Image.open">>]
                 /\ UNCHANGED <<fault, resp>>
  /\ UNCHANGED <<re_conf, det, disk, actvars>>

\* app.py 37-40, 43-47: imageLink is absent or empty: decode the base64
\* payload, open it, swap the channels and write it to the fixed path
ReceiveBase64(r) ==
  /\ pc[r] = "receive"
  /\ \E f \in FileInputs, l \in LinkInputs, b \in DecodedBytes :
       /\ ~LinkGiven(l)
       /\ file' = [file EXCEPT ![r] = f]
       /\ image_link' = [image_link EXCEPT ![r] = l]
       /\ payload' = [payload EXCEPT ![r] = IF f = "b64" THEN b ELSE None]
       /\ CASE f = None ->
                 /\ Raise(r, "TypeError", <<"b64decode">>)
                 /\ UNCHANGED <<image, disk>>
            [] f = "badpad" ->
                 /\ Raise(r, "binascii.Error", <<"b64decode">>)
                 /\ UNCHANGED <<image, disk>>
            [] f = "b64" /\ b = "notimage" ->
                 /\ Raise(r, "UnidentifiedImageError", <<"b64decode", "Image.open">>)
                 /\ UNCHANGED <<image, disk>>
            [] f = "b64" /\ b = "gray" ->
                 /\ Raise(r, "cv2.error", <<"b64decode", "Image.open", "cvtColor">>)
                 /\ image' = [image EXCEPT ![r] = PilImage(r, 1)]
                 /\ UNCHANGED disk
            [] OTHER ->
                 /\ image' = [image EXCEPT ![r] = PilImage(r, 3)]
                 /\ disk' = imwrite(cvtColor(PilImage(r, 3)))
                 /\ pc' = [pc EXCEPT ![r] = "detect"]
                 /\ log' = [log EXCEPT ![r] =
                      log[r] \o <<"b64decode", "Image.open", "cvtColor", "imwrite">>]
                 /\ UNCHANGED <<fault, resp>>
  /\ UNCHANGED <<re_conf, det, actvars>>

\* variant: the inference call is repeated
DetectTwice(r) ==
  /\ pc[r] = "detect"
  /\ det' = [det EXCEPT ![r] = app_detect(disk, Float(re_conf[r]).val)]
  /\ log' = [log EXCEPT ![r] = log[r] \o <<"app_detect", "app_detect">>]
  /\ pc' = [pc EXCEPT ![r] = "encode"]
  /\ UNCHANGED <<re_conf, file, image_link, payload, image, resp, fault, disk, actvars>>

\* app.py 50: run the detector on what the fixed path holds now
Detect(r) ==
  /\ pc[r] = "detect"
  /\ det' = [det EXCEPT ![r] = app_detect(disk, Float(re_conf[r]).val)]
  /\ log' = [log EXCEPT ![r] = log[r] \o <<"app_detect">>]
  /\ pc' = [pc EXCEPT ![r] = "encode"]
  /\ UNCHANGED <<re_conf, file, image_link, payload, image, resp, fault, disk, actvars>>

\* variant: the annotated array is encoded without the channel swap
RespondNoSwap(r) ==
  /\ pc[r] = "encode"
  /\ resp' = [resp EXCEPT ![r] =
       [status |-> 200,
        body |-> [image_info |-> JpegBase64(det[r].image_array),
                  re_label |-> det[r].re_label,
                  num |-> det[r].num]]]
  /\ log' = [log EXCEPT ![r] = log[r] \o <<"jsonify">>]
  /\ pc' = [pc EXCEPT ![r] = "done"]
  /\ UNCHANGED <<re_conf, file, image_link, payload, image, det, fault, disk, actvars>>

\* app.py 54-61: encode the annotated image and answer
Respond(r) ==
  /\ pc[r] = "encode"
  /\ resp' = [resp EXCEPT ![r] =
       [status |-> 200,
        body |-> [image_info |-> JpegBase64(cvtColor(det[r].image_array)),
                  re_label |-> det[r].re_label,
                  num |-> det[r].num]]]
  /\ log' = [log EXCEPT ![r] = log[r] \o <<"jsonify">>]
  /\ pc' = [pc EXCEPT ![r] = "done"]
  /\ UNCHANGED <<re_conf, file, image_link, payload, image, det, fault, disk, actvars>>

Next ==
  \E r \in Req :
    \/ ParseConf(r)
    \/ ReceiveLink(r)
    \/ ReceiveBase64(r)
    \/ Detect(r)
    \/ Respond(r)

Spec == Init /\ [][Next]_vars

TypeOK ==
  /\ \A r \in Req : pc[r] \in {"idle", "receive", "detect", "encode", "done", "fault"}
  /\ disk.pic \in 0..NumReq

\* ------------------------------------------------------ helpers for logs
Has(s, x) == \E i \in 1..Len(s) : s[i] = x

Count(s, x) == Cardinality({i \in 1..Len(s) : s[i] = x})

IndexOf(s, x) == CHOOSE i \in 1..Len(s) : s[i] = x

\* ------------------------------------------------------------ web claims

\* C1: whenever a request is about to invoke app_detect, the file at the
\* fixed path holds the image received in that request (either input form).
C1_ImageWrittenBeforeDetect ==
  \A r \in Req : pc[r] = "detect" => disk.pic = r

\* C2: every inference result of a request was computed from the image of
\* that same request: no handler reads a file another handler (or an
\* earlier run) wrote.
C2_ResponseFromOwnImage ==
  \A r \in Req : pc[r] \in {"encode", "done"} => det[r].image_array.pic = r

\* the request's input is one of the malformed or failing cases of C3, and
\* the handler has passed the step that meets it
Malformed(r) ==
  \/ pc[r] # "idle" /\ re_conf[r] \in {None, "abc"}
  \/ /\ pc[r] \notin {"idle", "receive"}
     /\ Float(re_conf[r]).ok
     /\ \/ ~LinkGiven(image_link[r]) /\ file[r] \in {None, "badpad"}
        \/ payload[r] \in {"neterror", "notimage"}

\* C3: malformed input, a failed fetch or an undecodable image end the
\* request in an unhandled fault: status 500 without a JSON body, no call
\* made twice, and app_detect never invoked.
C3_FaultsAreUnhandled ==
  \A r \in Req :
    /\ Malformed(r) => pc[r] = "fault"
    /\ pc[r] = "fault" =>
         /\ resp[r] = [status |-> 500, body |-> <<>>]
         /\ fault[r] # None
         /\ ~Has(log[r], "app_detect")
         /\ ~Has(log[r], "jsonify")
         /\ det[r] = NoDet
         /\ \A i, j \in 1..Len(log[r]) : log[r][i] = log[r][j] => i = j

C3_Witness ==
  \E r, q \in Req :
    /\ pc[r] = "fault" /\ payload[r] = "neterror"
    /\ pc[q] = "fault" /\ file[q] = "badpad" /\ image_link[q] = ""

\* C4: a request that returned JSON invoked app_detect exactly once, after
\* the receive step and before the encode/respond step; no request invokes
\* it more than once, and a finished request is not waiting for inference.
C4_DetectExactlyOnce ==
  \A r \in Req :
    /\ Count(log[r], "app_detect") <= 1
    /\ resp[r].status = 200 =>
         /\ Count(log[r], "app_detect") = 1
         /\ Count(log[r], "jsonify") = 1
         /\ IndexOf(log[r], "Image.open") < IndexOf(log[r], "app_detect")
         /\ IndexOf(log[r], "app_detect") < IndexOf(log[r], "jsonify")
         /\ det[r] # NoDet

C4_Witness ==
  \E r \in Req : pc[r] = "done" /\ Has(log[r], "imwrite")

\* C5: a successful response has exactly the fields image_info, re_label
\* and num; re_label and num are what app_detect returned for the request's
\* re_conf, and image_info is the base64 JPEG of the annotated image of that
\* same call, in its true colours.
C5_ResponseShape ==
  \A r \in Req :
    resp[r].status = 200 =>
      /\ DOMAIN resp[r].body = {"image_info", "re_label", "num"}
      /\ \E k \in 0..NumReq :
           det[r] = app_detect([pic |-> k, colours |-> TRUE], Float(re_conf[r]).val)
      /\ resp[r].body.re_label = det[r].re_label
      /\ resp[r].body.num = det[r].num
      /\ resp[r].body.image_info =
           <<"base64", <<"jpeg", [pic |-> det[r].image_array.pic,
                                  boxes |-> det[r].num,
                                  colours |-> TRUE]>> >>

C5_Witness ==
  \E r \in Req : resp[r].status = 200 /\ resp[r].body.num >= 1

\* C9: a request that faults before inference has not written the image
\* file, and no request fetches a link or writes the file before its
\* re_conf has been parsed successfully.
C9_FaultLeavesFile ==
  \A r \in Req :
    /\ pc[r] = "fault" => ~Has(log[r], "imwrite") /\ disk.pic # r
    /\ \A i \in 1..Len(log[r]) :
         log[r][i] \in {"req.get", "imwrite"} =>
           /\ i > 1
           /\ log[r][1] = "float"
           /\ Float(re_conf[r]).ok

C9_Witness ==
  \E r, q \in Req :
    /\ fault[r] = "cv2.error"
    /\ disk.pic = q /\ q # r

\* C10: a non-empty imageLink takes precedence: then only the link is
\* fetched and the base64 payload is neither decoded nor written; the
\* payload is decoded only when imageLink is absent or empty; exactly one
\* branch runs in a request that got past the parse of re_conf.
C10_LinkPrecedence ==
  \A r \in Req :
    /\ pc[r] \notin {"idle", "receive"} /\ Float(re_conf[r]).ok =>
         /\ image_link[r] \notin {None, ""} <=> Has(log[r], "req.get")
         /\ image_link[r] \in {None, ""} <=> Has(log[r], "b64decode")
    /\ ~(Has(log[r], "req.get") /\ Has(log[r], "b64decode"))
    /\ Has(log[r], "req.get") => ~Has(log[r], "imwrite")
    /\ Has(log[r], "imwrite") => image_link[r] \in {None, ""}

C10_Witness ==
  \E r \in Req : pc[r] = "done" /\ file[r] = "b64" /\ image_link[r] = "url"

\* ------------------------------------------------- activations: helpers
Min(a, b) == IF a <= b THEN a ELSE b

Max(a, b) == IF a >= b THEN a ELSE b

RECURSIVE Sum(_)
Sum(t) == IF t = <<>> THEN 0 ELSE Head(t) + Sum(Tail(t))

Tensors == [1..TensorLen -> (-MaxX)..MaxX]

\* torch.sigmoid at 0, 1, ..., 8 in thousandths
SigmoidTable == <<500, 731, 881, 953, 982, 993, 998, 999, 1000>>

\* torch.sigmoid in fixed point: argument and result in thousandths, linear
\* between the table's knots, saturated beyond them, odd about (0, 1/2)
RECURSIVE SigmoidM(_)
SigmoidM(zM) ==
  IF zM < 0 THEN 1000 - SigmoidM(-zM)
  ELSE IF zM >= 8000 THEN 1000
  ELSE LET k == zM \div 1000
           f == zM % 1000
       IN SigmoidTable[k + 1] + ((SigmoidTable[k + 2] - SigmoidTable[k + 1]) * f) \div 1000

\* variant: the upper clamp is missing
hardtanhNoUpper(v, lo, hi) == IF v < lo THEN lo ELSE v

\* F.hardtanh(v, lo, hi)
hardtanh(v, lo, hi) == IF v < lo THEN lo ELSE IF v > hi THEN hi ELSE v

\* Hardswish.forward at one element, as the numerator over 6:
\* x * F.hardtanh(x + 3, 0., 6.) / 6.
Hardswish_forward(x) == x * hardtanh(x + 3, 0, 6)

\* variant: the linear term added back is p1 * x
AconC_forwardP1(p1, p2, betaM, x) ==
  LET dpx == (p1 - p2) * x
  IN dpx * SigmoidM(betaM * dpx) + 1000 * p1 * x

\* AconC.forward at one element, in thousandths; betaM is beta in
\* thousandths:  dpx = (p1 - p2) * x;  dpx * sigmoid(beta * dpx) + p2 * x
AconC_forward(p1, p2, betaM, x) ==
  LET dpx == (p1 - p2) * x
  IN dpx * SigmoidM(betaM * dpx) + 1000 * p2 * x

\* MetaAconC.forward line 136: the mean over the spatial positions, in
\* thousandths
Mean(t) == (1000 * Sum(t)) \div Len(t)

\* MetaAconC.forward line 139: beta = sigmoid(fc2(fc1(y))), the two 1x1
\* convolutions taken with one channel each (weight w, bias b)
MetaBeta(yM, w1, b1, w2, b2) == SigmoidM(w2 * (w1 * yM + 1000 * b1) + 1000 * b2)

\* MetaAconC.forward lines 140-141 at one element, in thousandths
MetaAconC_forward(p1, p2, betaM, x) ==
  LET dpx == (p1 - p2) * x
  IN dpx * SigmoidM(betaM * dpx) + 1000 * p2 * x

\* ------------------------------------------- activations: specification
\* a module is constructed (p1, p2 random, beta learnable) and handed an
\* input tensor
InitAct ==
  /\ WebInit
  /\ act = "none"
  /\ ax \in Tensors
  /\ ap1 \in (-MaxP)..MaxP
  /\ ap2 \in (-MaxP)..MaxP
  /\ abeta \in {1000 * b : b \in (-MaxBeta)..MaxBeta}
  /\ aout = [i \in 1..TensorLen |-> 0]

ApplyHardswish ==
  /\ act = "none"
  /\ act' = "Hardswish"
  /\ aout' = [i \in 1..TensorLen |-> Hardswish_forward(ax[i])]
  /\ UNCHANGED <<ax, ap1, ap2, abeta, webvars>>

ApplyAconC ==
  /\ act = "none"
  /\ act' = "AconC"
  /\ aout' = [i \in 1..TensorLen |-> AconC_forward(ap1, ap2, abeta, ax[i])]
  /\ UNCHANGED <<ax, ap1, ap2, abeta, webvars>>

ApplyMetaAconC ==
  /\ act = "none"
  /\ act' = "MetaAconC"
  /\ \E w1, b1, w2, b2 \in (-MaxW)..MaxW :
       /\ abeta' = MetaBeta(Mean(ax), w1, b1, w2, b2)
       /\ aout' = [i \in 1..TensorLen |-> MetaAconC_forward(ap1, ap2, abeta', ax[i])]
  /\ UNCHANGED <<ax, ap1, ap2, webvars>>

NextAct == ApplyHardswish \/ ApplyAconC \/ ApplyMetaAconC

SpecAct == InitAct /\ [][NextAct]_vars

\* ----------------------------------------------------- numeric claims

\* C7 (as stated): Hardswish.forward is linear on each of x <= -3,
\* -3 <= x <= 3 and x >= 3: 0 on the first piece, x on the last, and on the
\* middle piece every point lies on the chord through the piece's ends.
C7_PiecewiseLinear ==
  act = "Hardswish" =>
    \A i \in 1..TensorLen :
      LET x == ax[i]
          y == aout[i]
      IN /\ x <= -3 => y = 0
         /\ x >= 3 => y = 6 * x
         /\ (-3 <= x /\ x <= 3) =>
              (y - Hardswish_forward(-3)) * (3 - (-3)) =
                (Hardswish_forward(3) - Hardswish_forward(-3)) * (x - (-3))

\* C7 (amended): Hardswish.forward is 0 for x <= -3, x for x >= 3 and the
\* quadratic x * (x + 3) / 6 for -3 <= x <= 3.
C7_PiecewiseQuadratic ==
  act = "Hardswish" =>
    \A i \in 1..TensorLen :
      LET x == ax[i]
          y == aout[i]
      IN /\ x <= -3 => y = 0
         /\ x >= 3 => y = 6 * x
         /\ (-3 <= x /\ x <= 3) => y = x * (x + 3)

C7_Witness ==
  /\ act = "Hardswish"
  /\ \E i, j \in 1..TensorLen : ax[i] = 1 /\ ax[j] > 3

\* C8: AconC.forward and MetaAconC.forward return g*p1*x + (1 - g)*p2*x
\* with the gate g = sigmoid(beta*(p1 - p2)*x) in [0, 1]; the output lies
\* between p1*x and p2*x and is p2*x when p1 = p2.
C8_ConvexCombination ==
  act \in {"AconC", "MetaAconC"} =>
    \A i \in 1..TensorLen :
      LET x == ax[i]
          g == SigmoidM(abeta * (ap1 - ap2) * x)
      IN /\ 0 <= g /\ g <= 1000
         /\ aout[i] = g * ap1 * x + (1000 - g) * ap2 * x
         /\ Min(1000 * ap1 * x, 1000 * ap2 * x) <= aout[i]
         /\ aout[i] <= Max(1000 * ap1 * x, 1000 * ap2 * x)
         /\ ap1 = ap2 => aout[i] = 1000 * ap2 * x

C8_Witness ==
  /\ act = "MetaAconC"
  /\ ap1 # ap2
  /\ \E i \in 1..TensorLen :
       /\ ax[i] # 0
       /\ Min(1000 * ap1 * ax[i], 1000 * ap2 * ax[i]) < aout[i]
       /\ aout[i] < Max(1000 * ap1 * ax[i], 1000 * ap2 * ax[i])

====
